---- MODULE Spec2Model ----
(***************************************************************************)
(* ADILOK for Raspberry PI: a bit register driven by train running         *)
(* messages and clocked out to daisy-chained shift-and-store registers.    *)
(*                                                                         *)
(* The repository holds two variants of the program:                       *)
(*   "routeset" : src/unnamed/part_000      (train-tracking + route-sets)  *)
(*   "classic"  : src/adilok-raspberry.js   (train-tracking only)          *)
(*                                                                         *)
(* Node runs every callback to completion on one thread.  All timers of    *)
(* the program that touch the bit register have the same delay (100 ms),   *)
(* so they fire in the order in which they were armed: they are one FIFO   *)
(* list, `timers'.  JavaScript arrays are 0-based, TLA+ sequences 1-based: *)
(* bits[i] of the program is bits[i + 1] here.                             *)
(***************************************************************************)
EXTENDS Integers, Sequences, FiniteSets, TLC

VARIABLES
    variant,     \* which of the two source files runs
    argv2,       \* process.argv[2]
    pc,          \* "boot" | "idle" | "send" | "exited"
    caller,      \* who called sendPattern: "initialize" | "interval"
    bitCount,    \* let bitCount
    rules,       \* const rules = {}: location key -> list of rules
    bits,        \* const bits = []
    timers,      \* pending 100 ms timers, in the order they were armed
    counter,     \* sendPattern's loop variable
    data,        \* level of the data line
    clocked,     \* data levels at the clock's rising edges of the running transmission
    sent,        \* the bits as they stood when the running transmission started
    strobes,     \* strobe pulses of the current (or last) transmission
    recv, ack, err,   \* indicator lines
    stale,       \* Date.now() - lastMessageReceived > 60 * 1000
    mainOn,      \* main() has been called: the socket and the watchdog exist
    socket,      \* "none" | "connecting" | "connected": the mqtt client's connection
    debugOn,     \* debug() has been called: the console reads lines
    last         \* what became of the last inbound message

vars == <<variant, argv2, pc, caller, bitCount, rules, bits, timers, counter, data,
          clocked, sent, strobes, recv, ack, err, stale, mainOn, socket, debugOn, last>>

\* ------------------------------------------------------------------ bounds

\* The most timers still pending when a message is taken: a message arrives only
\* while at most this many timers (the transmitter's included) wait to fire.
MaxTimers == 3

\* ------------------------------------------------------------------ values

\* A field that is absent (undefined); like '' it is falsy.
None == ""

Truthy(x) == x # None

\* rule.bit === undefined
NoBit == -1

RoutesetMarkers == {"ROUTESET", "ROUTESET_S", "ROUTESET_C"}

Rule(station, trackSection, type, action, bit) ==
    [station |-> station, trackSection |-> trackSection, type |-> type,
     from |-> None, fromSection |-> None, to |-> None, toSection |-> None,
     action |-> action, bit |-> bit]

\* ------------------------------------------------------------------ bit register

\* Reading bits[bit]: a position that was never written reads undefined, which
\* every reader of the register (if (bit), !bits[bit], bits[i] ? :) takes as false.
ReadBit(b, bit) == bit < Len(b) /\ b[bit + 1]

\* bits[bit] = v: an index beyond the end makes the array grow.
WriteBit(b, bit, v) ==
    IF bit < Len(b)
    THEN [b EXCEPT ![bit + 1] = v]
    ELSE b \o [i \in 1..(bit - Len(b)) |-> FALSE] \o <<v>>

\* A clear that leaves the bit as it is
clearBitForgotten(b, bit) == b

clearBit(b, bit) == WriteBit(b, bit, FALSE)

setBit(b, bit) == WriteBit(b, bit, TRUE)

\* A toggle that reads bit 0 whatever bit it writes
toggleBitOfFirst(b, bit) == WriteBit(b, bit, ~ReadBit(b, 0))

toggleBit(b, bit) == WriteBit(b, bit, ~ReadBit(b, bit))

\* ------------------------------------------------------------------ timers

\* A pending timer.  Two fields belong to the observer, not to the program:
\* superseded (a rule acted on the timer's bit after the timer was armed) and
\* tracked (the one pulse timer a run follows to its expiry).
Timer(kind, bit) == [kind |-> kind, bit |-> bit, superseded |-> FALSE, tracked |-> FALSE]

SendTimer == Timer("sendPattern", NoBit)
ClearTimer(bit) == Timer("clearBit", bit)
RecvTimer == Timer("recvOff", NoBit)
AckTimer == Timer("ackOff", NoBit)

\* The handler's working state: st.bits, st.timers, st.ack, the rules executed so
\* far (st.applied), the rules whose predicate said no (st.rejected), where an
\* exception was thrown (st.thrown, None if nowhere), and the position in the
\* route of a route-set message: st.index of 0..st.lastIndex (both 0 otherwise).
Thrown(st) == st.thrown # None

\* An exception thrown at `site': what was done before it stays done
Throw(st, site) == [st EXCEPT !.thrown = site]

\* pulseBit: set the bit now, arm the timer that clears it.
pulseBit(st, bit) ==
    [st EXCEPT !.bits = setBit(@, bit), !.timers = Append(@, ClearTimer(bit))]

\* pulseInternal(ack)
pulseAck(st) == [st EXCEPT !.ack = 1, !.timers = Append(@, AckTimer)]

IsClearTimer(t, bit) == t.kind = "clearBit" /\ t.bit = bit

\* The observer notes that a rule acts on `bit': the pulse timers pending on it
\* are no longer the last word on the bit
Supersede(ts, bit) ==
    [i \in 1..Len(ts) |-> IF IsClearTimer(ts[i], bit)
                          THEN [ts[i] EXCEPT !.superseded = TRUE] ELSE ts[i]]

\* The observer follows the first pulse timer armed after the first `old' timers
TrackNew(ts, old) ==
    LET new == {i \in (old + 1)..Len(ts) : ts[i].kind = "clearBit"}
        first == CHOOSE i \in new : \A j \in new : i <= j
    IN [ts EXCEPT ![first].tracked = TRUE]

Tracking(ts) == \E i \in 1..Len(ts) : ts[i].tracked

CanTrack(ts, old) ==
    /\ ~Tracking(ts)
    /\ \E i \in (old + 1)..Len(ts) : ts[i].kind = "clearBit"

\* ------------------------------------------------------------------ rule index

Lookup(idx, key) == IF key \in DOMAIN idx THEN idx[key] ELSE <<>>

\* rules[key] = rules[key] || []; rules[key].push(rule)
Push(idx, key, rule) ==
    IF key \in DOMAIN idx
    THEN [idx EXCEPT ![key] = Append(@, rule)]
    ELSE [k \in DOMAIN idx \cup {key} |-> IF k = key THEN <<rule>> ELSE idx[k]]

\* The key of a rule: station, or station + '|' + trackSection.  A key is the
\* tuple of its parts (station codes hold no '|').
KeyOf(station, section) == IF Truthy(section) THEN <<station, section>> ELSE <<station>>

\* !rule.action || !rule.bit: bit 0 is falsy
IncorrectFalsyBit(rule) == ~Truthy(rule.action) \/ rule.bit <= 0

\* !rule.action || rule.bit === undefined
Incorrect(rule) == ~Truthy(rule.action) \/ rule.bit = NoBit

\* readConfig's loop over config.rules
RECURSIVE IndexRules(_, _)
IndexRules(rs, idx) ==
    IF rs = <<>> THEN idx
    ELSE LET rule == Head(rs) IN
         IF Incorrect(rule) THEN IndexRules(Tail(rs), idx)
         ELSE IF Truthy(rule.station)
              THEN IndexRules(Tail(rs), Push(idx, KeyOf(rule.station, rule.trackSection), rule))
              ELSE IndexRules(Tail(rs), idx)

EmptyIndex == [k \in {} |-> <<>>]

\* A register whose positions beyond the pattern are filled with ones
InitialBitsPadded(n, pattern) == [i \in 1..n |-> i > Len(pattern) \/ pattern[i] = "1"]

\* bits[i] = initialPattern[i] === '1' || false, for i < bitCount
InitialBits(n, pattern) == [i \in 1..n |-> i <= Len(pattern) /\ pattern[i] = "1"]

\* ------------------------------------------------------------------ rule matching

\* The filters from, fromSection, to, toSection, type on a train-tracking message
checkFilters(message, rule) ==
    /\ ~(Truthy(rule.from) /\ message.previousStation # rule.from)
    /\ ~(Truthy(rule.fromSection) /\ message.previousTrackSection # rule.to)
    /\ ~(Truthy(rule.to) /\ message.nextStation # rule.to)
    /\ ~(Truthy(rule.toSection) /\ message.nextTrackSection # rule.to)
    /\ ~(Truthy(rule.type) /\ message.type # rule.type)

\* A predicate that takes a missing type for a mismatch
checkTrainTrackingRulesTypeNeeded(message, rule) ==
    /\ rule.type \notin RoutesetMarkers
    /\ checkFilters(message, rule)
    /\ Truthy(rule.type)

checkTrainTrackingRules(message, rule) ==
    /\ rule.type \notin RoutesetMarkers
    /\ checkFilters(message, rule)

\* A slice that ends with the section itself: slice(0, i + 1) for slice(0, i)
PrevSectionsInclusive(rs, i) == SubSeq(rs, 1, i + 1)

\* routesections.slice(0, i) and .slice(i + 1, section.length), i 0-based:
\* a section has no length, and slice(from, undefined) runs to the end
PrevSections(rs, i) == SubSeq(rs, 1, i)

\* A slice that starts at the section itself: slice(i) for slice(i + 1)
NextSectionsInclusive(rs, i) == SubSeq(rs, i + 1, Len(rs))

NextSections(rs, i) == SubSeq(rs, i + 2, Len(rs))

\* A predicate that looks for a marker, whichever it is, and at nothing else
checkRoutesetRulesAnyMarker(message, rule, prev, next) ==
    IF rule.type \in RoutesetMarkers THEN "true" ELSE "false"

\* "true" | "false" | "throw": reading .stationCode of a null section throws
checkRoutesetRules(message, rule, prev, next) ==
    IF rule.type \notin RoutesetMarkers THEN "false"
    ELSE IF rule.type = "ROUTESET" /\ message.routeType # "T" THEN "false"
    ELSE IF rule.type = "ROUTESET_S" /\ message.routeType # "S" THEN "false"
    ELSE IF rule.type = "ROUTESET_C" /\ message.routeType # "C" THEN "false"
    ELSE IF Truthy(rule.from) /\ prev = <<>> THEN "false"
    ELSE IF Truthy(rule.from) /\ prev[Len(prev)].isNull THEN "throw"
    ELSE IF Truthy(rule.from) /\ prev[Len(prev)].stationCode # rule.from THEN "false"
    ELSE IF Truthy(rule.to) /\ next = <<>> THEN "false"
    ELSE IF Truthy(rule.to) /\ next[1].isNull THEN "throw"
    ELSE IF Truthy(rule.to) /\ next[1].stationCode # rule.to THEN "false"
    ELSE IF Truthy(rule.fromSection) /\ prev = <<>> THEN "false"
    ELSE IF Truthy(rule.fromSection) /\ prev[Len(prev)].isNull THEN "throw"
    ELSE IF Truthy(rule.fromSection) /\ prev[Len(prev)].sectionId # rule.fromSection THEN "false"
    ELSE IF Truthy(rule.toSection) /\ next = <<>> THEN "false"
    ELSE IF Truthy(rule.toSection) /\ next[1].isNull THEN "throw"
    ELSE IF Truthy(rule.toSection) /\ next[1].sectionId # rule.toSection THEN "false"
    ELSE "true"

\* ------------------------------------------------------------------ actions

\* A print that reads no section
PrintNeverThrows(message) == FALSE

\* printRoutesetMessage reads rs.stationCode of every section: a null section throws.
\* printTrainTrackingMessage reads fields of the message only.
PrintThrows(message) ==
    /\ Truthy(message.routeType)
    /\ \E i \in 1..Len(message.routesections) : message.routesections[i].isNull

\* AUTO in part_000: ['OCCUPY', 'T', 'S'].indexOf(message.type) >= 0
ActiveRouteset(message) == message.type \in {"OCCUPY", "T", "S"}

\* AUTO in adilok-raspberry.js: message.type === 'OCCUPY'
ActiveClassic(message) == message.type = "OCCUPY"

\* AUTO with the two branches swapped
ActiveSwapped(v, message) == message.type # "OCCUPY"

Active(v, message) == IF v = "routeset" THEN ActiveRouteset(message) ELSE ActiveClassic(message)

\* else if (rule.action === 'PULSEOCCUPY' && message.type === 'OCCUPY'), classic only
PulseOccupy(v, message, rule) ==
    v = "classic" /\ rule.action = "PULSEOCCUPY" /\ message.type = "OCCUPY"

PulseRelease(v, message, rule) ==
    v = "classic" /\ rule.action = "PULSERELEASE" /\ message.type = "RELEASE"

\* A chain whose last branch pulses the bit
EffectElsePulse(v, st, message, rule) ==
    IF rule.action = "SET" THEN [st EXCEPT !.bits = setBit(@, rule.bit)]
    ELSE pulseBit(st, rule.bit)

\* The if / else if chain of takeAction on rule.action
Effect(v, st, message, rule) ==
    IF rule.action = "AUTO"
    THEN [st EXCEPT !.bits = IF Active(v, message) THEN setBit(@, rule.bit)
                                                   ELSE clearBit(@, rule.bit)]
    ELSE IF rule.action = "AUTOINV"
    THEN [st EXCEPT !.bits = IF Active(v, message) THEN clearBit(@, rule.bit)
                                                   ELSE setBit(@, rule.bit)]
    ELSE IF rule.action = "SET" THEN [st EXCEPT !.bits = setBit(@, rule.bit)]
    ELSE IF rule.action = "CLEAR" THEN [st EXCEPT !.bits = clearBit(@, rule.bit)]
    ELSE IF rule.action = "TOGGLE" THEN [st EXCEPT !.bits = toggleBit(@, rule.bit)]
    ELSE IF rule.action = "PULSE" THEN pulseBit(st, rule.bit)
    ELSE IF PulseOccupy(v, message, rule) THEN pulseBit(st, rule.bit)
    ELSE IF PulseRelease(v, message, rule) THEN pulseBit(st, rule.bit)
    ELSE st

\* The branches of that chain that touch the bit
Acts(v, message, rule) ==
    \/ rule.action \in {"AUTO", "AUTOINV", "SET", "CLEAR", "TOGGLE", "PULSE"}
    \/ PulseOccupy(v, message, rule)
    \/ PulseRelease(v, message, rule)

Observe(v, st, message, rule) ==
    IF Acts(v, message, rule) THEN [st EXCEPT !.timers = Supersede(@, rule.bit)] ELSE st

\* What the history keeps of one executed rule: the event it was executed for,
\* its bit before and after, and whether it armed a pulse timer.  `to' is the
\* working state after the rule's action, st the one before it.
Applied(st, to, message, rule) ==
    [rule |-> rule, type |-> message.type, routeType |-> message.routeType,
     index |-> st.index, lastIndex |-> st.lastIndex,
     before |-> ReadBit(st.bits, rule.bit), after |-> ReadBit(to.bits, rule.bit),
     armed |-> Len(to.timers) > Len(st.timers)]

Record(st, to, message, rule) ==
    [to EXCEPT !.applied = Append(@, Applied(st, to, message, rule))]

\* What the history keeps of a rule whose predicate returned false
Reject(st, rule) ==
    [st EXCEPT !.rejected = Append(@, [rule |-> rule, index |-> st.index])]

\* takeAction of part_000: print, act, pulse the acknowledge line
takeActionRouteset(st, message, rule) ==
    IF PrintThrows(message)
    THEN Throw(st, "print")
    ELSE pulseAck(Record(st, Effect("routeset", Observe("routeset", st, message, rule),
                                    message, rule),
                         message, rule))

\* A takeAction that pulses the acknowledge line before it looks at the filters
takeActionClassicAckFirst(st, message, rule) ==
    IF ~checkFilters(message, rule)
    THEN pulseAck(Reject(st, rule))
    ELSE pulseAck(Record(st, Effect("classic", Observe("classic", st, message, rule),
                                    message, rule),
                         message, rule))

\* takeAction of adilok-raspberry.js: filter, print, act, pulse the acknowledge line
takeActionClassic(st, message, rule) ==
    IF ~checkFilters(message, rule)
    THEN Reject(st, rule)
    ELSE pulseAck(Record(st, Effect("classic", Observe("classic", st, message, rule),
                                    message, rule),
                         message, rule))

\* ------------------------------------------------------------------ dispatch

\* rules[key].forEach(...) of handleTrainTrackingMessage
RECURSIVE forEachTrainRule(_, _, _)
forEachTrainRule(st, message, list) ==
    IF list = <<>> \/ Thrown(st) THEN st
    ELSE forEachTrainRule(
             IF checkTrainTrackingRules(message, Head(list))
             THEN takeActionRouteset(st, message, Head(list))
             ELSE Reject(st, Head(list)),
             message, Tail(list))

\* rules[key].forEach(...) of handleMessage (adilok-raspberry.js)
RECURSIVE forEachClassicRule(_, _, _)
forEachClassicRule(st, message, list) ==
    IF list = <<>> THEN st
    ELSE forEachClassicRule(takeActionClassic(st, message, Head(list)), message, Tail(list))

\* rules[key].forEach(...) of handleRoutesetMessage, at section i (0-based)
RECURSIVE forEachRoutesetRule(_, _, _, _)
forEachRoutesetRule(st, message, i, list) ==
    IF list = <<>> \/ Thrown(st) THEN st
    ELSE LET verdict == checkRoutesetRules(message, Head(list),
                            PrevSections(message.routesections, i),
                            NextSections(message.routesections, i))
         IN forEachRoutesetRule(
                IF verdict = "throw" THEN Throw(st, "check")
                ELSE IF verdict = "true" THEN takeActionRouteset(st, message, Head(list))
                ELSE Reject(st, Head(list)),
                message, i, Tail(list))

\* The bare-station list first, the station|trackSection list second
handleTrainTrackingMessage(st, message) ==
    forEachTrainRule(
        forEachTrainRule(st, message, Lookup(rules, <<message.station>>)),
        message, Lookup(rules, <<message.station, message.trackSection>>))

handleMessage(st, message) ==
    forEachClassicRule(
        forEachClassicRule(st, message, Lookup(rules, <<message.station>>)),
        message, Lookup(rules, <<message.station, message.trackSection>>))

\* message.routesections.forEach(function(section, i) {...}), from section i on
RECURSIVE forEachSection(_, _, _)
forEachSection(st, message, i) ==
    IF i >= Len(message.routesections) \/ Thrown(st) THEN st
    ELSE LET section == message.routesections[i + 1] IN
         IF section.isNull THEN Throw(st, "section")
         ELSE forEachSection(
                  forEachRoutesetRule(
                      forEachRoutesetRule([st EXCEPT !.index = i], message, i,
                          Lookup(rules, <<section.stationCode>>)),
                      message, i, Lookup(rules, <<section.stationCode, section.sectionId>>)),
                  message, i + 1)

handleRoutesetMessage(st, message) ==
    forEachSection([st EXCEPT !.lastIndex = Len(message.routesections) - 1], message, 0)

\* The body of messageReceiver after the timestamp is taken.
\* JSON.parse(message.toString()) throws on a malformed payload; reading a field
\* of the parsed value throws when that value is null.
Dispatch(v, st, m) ==
    IF m.parse = "malformed" THEN Throw(st, "parse")
    ELSE IF m.parse = "null" THEN Throw(st, "message")
    ELSE IF v = "classic" THEN handleMessage(st, m)
    ELSE IF m.channel = "train-tracking" THEN handleTrainTrackingMessage(st, m)
    ELSE IF m.channel = "routesets" THEN handleRoutesetMessage(st, m)
    ELSE st

\* The working state a message is handled from: pulseInternal(recv) comes
\* first, outside the try
Working ==
    [bits |-> bits, timers |-> Append(timers, RecvTimer), ack |-> ack,
     thrown |-> None, applied |-> <<>>, rejected |-> <<>>,
     index |-> 0, lastIndex |-> 0]

Received(m) == Dispatch(variant, Working, m)

\* ------------------------------------------------------------------ inputs

Variants == {"routeset", "classic"}

\* process.argv[2]; "" stands for no option
Modes == {"--debug", "--livedebug", ""}

Config(n, pattern, rs) == [bits |-> n, initialPattern |-> pattern, rules |-> rs]

\* Configurations the program is started with
Configs ==
    { Config(2, <<"0", "1">>,
             << Rule("A", None, "OCCUPY", "PULSE", 0),
                Rule("B", None, None, "SET", 0),
                Rule("A", "1", None, "TOGGLE", 1) >>),
      Config(2, <<"1">>,
             << Rule("A", None, None, "AUTO", 0),
                Rule("A", "1", None, "AUTOINV", 1),
                Rule("B", None, None, "PULSE", 0) >>),
      Config(1, <<>>,
             << Rule("A", None, "ROUTESET", "AUTO", 0),
                Rule("B", None, "ROUTESET_C", "AUTO", 0),
                Rule("A", "1", "ROUTESET_S", "PULSE", 0) >>),
      Config(1, <<"1">>,
             << Rule("A", None, None, "SET", 1),
                Rule("B", None, None, None, 0),
                Rule("B", None, None, "SET", NoBit),
                Rule(None, None, None, "SET", 0),
                Rule("B", "1", "RELEASE", "PULSERELEASE", 0) >>),
      Config(1, <<"1">>,
             << [Rule("A", None, None, "CLEAR", 0) EXCEPT !.fromSection = "1"],
                [Rule("B", None, None, "CLEAR", 0) EXCEPT !.toSection = "2"],
                [Rule("A", None, "ROUTESET", "SET", 0) EXCEPT !.from = "B"],
                [Rule("B", None, "ROUTESET", "TOGGLE", 0) EXCEPT !.to = "A"],
                [Rule("A", "1", "ROUTESET", "SET", 0) EXCEPT !.toSection = "1"],
                Rule("A", "1", "ROUTESET", "CLEAR", 0) >>),
      Config(1, <<"0", "1">>,
             << Rule("A", None, None, "FLASH", 0),
                Rule("A", "1", None, "PULSEOCCUPY", 0),
                Rule("B", None, None, "SET", 0),
                Rule("B", "1", None, "CLEAR", 0) >>) }

Message(channel, parse) ==
    [channel |-> channel, parse |-> parse, station |-> None, trackSection |-> None,
     type |-> None, previousStation |-> None, nextStation |-> None,
     previousTrackSection |-> None, nextTrackSection |-> None,
     routeType |-> None, routesections |-> <<>>]

TrainMessage(station, trackSection, type) ==
    [Message("train-tracking", "object") EXCEPT
        !.station = station, !.trackSection = trackSection, !.type = type]

RoutesetMessage(routeType, sections) ==
    [Message("routesets", "object") EXCEPT
        !.routeType = routeType, !.routesections = sections]

Section(stationCode, sectionId) ==
    [stationCode |-> stationCode, sectionId |-> sectionId, isNull |-> FALSE]

NullSection == [stationCode |-> None, sectionId |-> None, isNull |-> TRUE]

\* An event of a train that came from track section 1 and goes on to section 2
Passing(station, type) ==
    [TrainMessage(station, None, type) EXCEPT
        !.previousTrackSection = "1", !.nextTrackSection = "2"]

TrainPayloads ==
    { TrainMessage(s, t, ty) : s \in {"A", "B"}, t \in {None, "1"},
                               ty \in {"OCCUPY", "RELEASE"} }
    \cup { Passing(s, "OCCUPY") : s \in {"A", "B"} }
    \cup { Message("train-tracking", "malformed"), Message("train-tracking", "null") }

Routes ==
    { << Section("A", "1") >>,
      << Section("B", "2"), Section("A", "1") >>,
      << Section("A", "1"), NullSection >>,
      << Section("B", "2"), Section("B", "2"), Section("A", "1"), Section("A", "1") >> }

RoutesetPayloads ==
    { RoutesetMessage(rt, r) : rt \in {"T", "S", "C"}, r \in Routes }
    \cup { Message("routesets", "malformed") }

\* What the socket can deliver: adilok-raspberry.js subscribes to train-tracking only
Payloads(v) == IF v = "routeset" THEN TrainPayloads \cup RoutesetPayloads ELSE TrainPayloads

\* ------------------------------------------------------------------ the program

NoMessage == [outcome |-> "none", thrown |-> None, applied |-> <<>>, rejected |-> <<>>]

Init ==
    /\ variant \in Variants
    /\ argv2 \in Modes
    /\ pc = "boot"
    /\ caller = "initialize"
    /\ bitCount = 8
    /\ rules = EmptyIndex
    /\ bits = <<>>
    /\ timers = <<>>
    /\ counter = 0
    /\ data = 0
    /\ clocked = <<>>
    /\ sent = <<>>
    /\ strobes = 0
    /\ recv = 0
    /\ ack = 0
    /\ err = 1
    /\ stale = FALSE
    /\ mainOn = FALSE
    /\ socket = "none"
    /\ debugOn = FALSE
    /\ last = NoMessage

\* Entering sendPattern: counter = bits.length
EnterSendPattern(b, who) ==
    /\ pc' = "send"
    /\ caller' = who
    /\ counter' = Len(b)
    /\ sent' = b
    /\ clocked' = <<>>
    /\ strobes' = 0

\* initialize(): readConfig, the initial bits, and the call of sendPattern
initialize(config) ==
    /\ pc = "boot"
    /\ bitCount' = config.bits
    /\ rules' = IndexRules(config.rules, EmptyIndex)
    /\ bits' = InitialBits(config.bits, config.initialPattern)
    /\ EnterSendPattern(bits', "initialize")
    /\ UNCHANGED <<variant, argv2, timers, data, recv, ack, err, stale,
                   mainOn, socket, debugOn, last>>

\* A sendPattern that yields to the event loop while it waits
CallbackAnyTime == pc \in {"idle", "send"}

\* Node runs a callback only when no other is running: sendPattern is one
\* synchronous function and sleep.usleep blocks the thread
CallbackReady == pc = "idle"

\* The interval timer of sendPattern comes due
sendPatternTick ==
    /\ CallbackReady
    /\ timers # <<>>
    /\ Head(timers).kind = "sendPattern"
    /\ timers' = Tail(timers)
    /\ EnterSendPattern(bits, "interval")
    /\ UNCHANGED <<variant, argv2, bitCount, rules, bits, data, recv, ack, err,
                   stale, mainOn, socket, debugOn, last>>

\* A loop that reads bits[counter] for bits[counter - 1]
DataLevelOffByOne(b, c, d) == IF ReadBit(b, c) THEN 1 ELSE d

\* The level on the data line when the clock rises
DataLevel(b, c, d) == IF ReadBit(b, c - 1) THEN 1 ELSE d

\* One round of sendPattern's loop: data, clock high, clock low, data low
ClockBit ==
    /\ pc = "send"
    /\ counter > 0
    /\ clocked' = Append(clocked, DataLevel(bits, counter, data))
    /\ data' = 0
    /\ counter' = counter - 1
    /\ UNCHANGED <<variant, argv2, pc, caller, bitCount, rules, bits, timers, sent, 
                   strobes, recv, ack, err, stale, mainOn, socket, debugOn, last>>

\* The register chain: every clock pulse shifts the data level into stage 0 and
\* the other stages one up, so the level clocked last sits in stage 0.  Latch(c)
\* is what the strobe moves to the outputs after the levels c were clocked in.
Latch(c) == [i \in 1..Len(c) |-> c[Len(c) - i + 1]]

\* Which of debug() and main() the startup dispatch calls
CallsMain(v, a) == IF v = "routeset" THEN a # "--debug" ELSE TRUE

CallsDebug(v, a) == a \in {"--debug", "--livedebug"}

\* The strobe pulse that ends sendPattern: the outputs take Latch(clocked).
\* Called by initialize, the program goes on to setInterval(sendPattern, 100) and
\* the startup dispatch; called by the interval, the interval is armed again.
Strobe ==
    /\ pc = "send"
    /\ counter <= 0
    /\ strobes' = strobes + 1
    /\ pc' = "idle"
    /\ sent' = <<>>
    /\ clocked' = <<>>
    /\ timers' = Append(timers, SendTimer)
    /\ IF caller = "initialize"
       THEN /\ mainOn' = CallsMain(variant, argv2)
            /\ socket' = IF CallsMain(variant, argv2) THEN "connecting" ELSE "none"
            /\ debugOn' = CallsDebug(variant, argv2)
       ELSE UNCHANGED <<mainOn, socket, debugOn>>
    /\ UNCHANGED <<variant, argv2, caller, bitCount, rules, bits, counter, data,
                   recv, ack, err, stale, last>>

\* setTimeout(function() { clearBit(bit); }, 100) of pulseBit comes due
clearBitTimeout ==
    /\ CallbackReady
    /\ timers # <<>>
    /\ Head(timers).kind = "clearBit"
    /\ bits' = clearBit(bits, Head(timers).bit)
    /\ timers' = Tail(timers)
    /\ UNCHANGED <<variant, argv2, pc, caller, bitCount, rules, counter, data, clocked,
                   sent, strobes, recv, ack, err, stale, mainOn, socket, debugOn, last>>

\* setTimeout(function() { bit.writeSync(0); }, 100) of pulseInternal(recv)
recvTimeout ==
    /\ CallbackReady
    /\ timers # <<>>
    /\ Head(timers).kind = "recvOff"
    /\ recv' = 0
    /\ timers' = Tail(timers)
    /\ UNCHANGED <<variant, argv2, pc, caller, bitCount, rules, bits, counter, data, clocked,
                   sent, strobes, ack, err, stale, mainOn, socket, debugOn, last>>

\* setTimeout(function() { bit.writeSync(0); }, 100) of pulseInternal(ack)
ackTimeout ==
    /\ CallbackReady
    /\ timers # <<>>
    /\ Head(timers).kind = "ackOff"
    /\ ack' = 0
    /\ timers' = Tail(timers)
    /\ UNCHANGED <<variant, argv2, pc, caller, bitCount, rules, bits, counter, data, clocked,
                   sent, strobes, recv, err, stale, mainOn, socket, debugOn, last>>

\* An exception that leaves messageReceiver reaches the mqtt client, which is not
\* part of the sources: the process may end there or go on
AfterEscape == {"idle", "exited"}

\* part_000 catches what the handlers throw and raises the error line;
\* adilok-raspberry.js has no try
Catches(v) == v = "routeset"

Outcome(v, st) ==
    IF ~Thrown(st) THEN "ok" ELSE IF Catches(v) THEN "error" ELSE "thrown"

\* An error line that is raised by a failure but never switched off
ErrorLineKept(v, st) == IF Thrown(st) /\ Catches(v) THEN 1 ELSE err

\* setInternal(err, 0) before the message is handled, setInternal(err, 1) in the catch
ErrorLine(v, st) == IF Thrown(st) /\ Catches(v) THEN 1 ELSE 0

\* socket.on('message', ...): messageReceiver
messageReceiver(m, track) ==
    /\ CallbackReady
    /\ mainOn
    /\ socket = "connected"
    /\ LET st == Received(m) IN
        /\ Len(timers) <= MaxTimers
        /\ track => CanTrack(st.timers, Len(timers))
        /\ recv' = 1
        /\ stale' = FALSE
        /\ bits' = st.bits
        /\ timers' = IF track THEN TrackNew(st.timers, Len(timers)) ELSE st.timers
        /\ ack' = st.ack
        /\ err' = ErrorLine(variant, st)
        /\ pc' \in IF Thrown(st) /\ ~Catches(variant) THEN AfterEscape ELSE {"idle"}
        /\ last' = [outcome |-> Outcome(variant, st), thrown |-> st.thrown,
                    applied |-> st.applied, rejected |-> st.rejected]
    /\ UNCHANGED <<variant, argv2, caller, bitCount, rules, counter, data, clocked, sent,
                   strobes, mainOn, socket, debugOn>>

\* rl.on('line', ...): a line of digits toggles the bit it names when it is in range
consoleLine(bitNumber) ==
    /\ CallbackReady
    /\ debugOn
    /\ bits' = IF bitNumber >= 0 /\ bitNumber < Len(bits) THEN toggleBit(bits, bitNumber)
               ELSE bits
    /\ UNCHANGED <<variant, argv2, pc, caller, bitCount, rules, timers, counter, data,
                   clocked, sent, strobes, recv, ack, err, stale, mainOn, socket, debugOn,
                   last>>

\* socket.on('close') and socket.on('reconnect'): the connection is lost, or an
\* attempt to connect has failed, and the mqtt client sets out to connect again
socketDown ==
    /\ CallbackReady
    /\ mainOn
    /\ err' = 1
    /\ socket' = "connecting"
    /\ UNCHANGED <<variant, argv2, pc, caller, bitCount, rules, bits, timers, counter, data,
                   clocked, sent, strobes, recv, ack, stale, mainOn, debugOn, last>>

\* socket.on('connect'): the client is connected and subscribes to the topics
socketConnect ==
    /\ CallbackReady
    /\ socket = "connecting"
    /\ socket' = "connected"
    /\ UNCHANGED <<variant, argv2, pc, caller, bitCount, rules, bits, timers, counter, data,
                   clocked, sent, strobes, recv, ack, err, stale, mainOn, debugOn, last>>

\* More than a minute goes by after the last message: every timer a message
\* armed has fired long ago, the interval alone is pending
minutePasses ==
    /\ CallbackReady
    /\ ~stale
    /\ timers = <<SendTimer>>
    /\ stale' = TRUE
    /\ UNCHANGED <<variant, argv2, pc, caller, bitCount, rules, bits, timers, counter, data,
                   clocked, sent, strobes, recv, ack, err, mainOn, socket, debugOn, last>>

\* The 2 s interval of main(): no message for over a minute
watchdog ==
    /\ CallbackReady
    /\ mainOn
    /\ stale
    /\ err' = 1
    /\ stale' = FALSE
    /\ UNCHANGED <<variant, argv2, pc, caller, bitCount, rules, bits, timers, counter, data,
                   clocked, sent, strobes, recv, ack, mainOn, socket, debugOn, last>>

Next ==
    \/ \E config \in Configs : initialize(config)
    \/ sendPatternTick
    \/ ClockBit
    \/ Strobe
    \/ clearBitTimeout
    \/ recvTimeout
    \/ ackTimeout
    \/ \E m \in Payloads(variant), track \in BOOLEAN : messageReceiver(m, track)
    \/ \E bitNumber \in 0..Len(bits) : consoleLine(bitNumber)
    \/ socketDown
    \/ socketConnect
    \/ minutePasses
    \/ watchdog

Spec == Init /\ [][Next]_vars

\* part_000 alone
InitRouteset == Init /\ variant = "routeset"

SpecRouteset == InitRouteset /\ [][Next]_vars

\* adilok-raspberry.js alone
InitClassic == Init /\ variant = "classic"

SpecClassic == InitClassic /\ [][Next]_vars

\* Node's event loop runs a timer that is due, and a running sendPattern goes on
TimerStep ==
    sendPatternTick \/ ClockBit \/ Strobe \/ clearBitTimeout \/ recvTimeout \/ ackTimeout

\* part_000 with the event loop's fairness
FairRouteset == InitRouteset /\ [][Next]_vars /\ WF_vars(TimerStep)

\* ------------------------------------------------------------------ claims

Level(b) == IF b THEN 1 ELSE 0

\* A step of messageReceiver: no other callback arms a timer, and last' is what
\* became of the message
MessageStep == CallbackReady /\ mainOn /\ Len(timers') > Len(timers)

\* C1: in every run of sendPattern over [b0, ..., b_{k-1}] the j-th clock pulse
\* (j = 1..k) carries b_{k-j} on the data line, the highest index first and bit 0
\* last, and when the loop ends (counter = 0, the strobe is next) exactly k clock
\* pulses have been given.
C1_TransmissionOrder ==
    pc = "send" =>
        /\ counter \in 0..Len(sent)
        /\ Len(clocked) = Len(sent) - counter
        /\ \A j \in 1..Len(clocked) : clocked[j] = Level(sent[Len(sent) - j + 1])

\* A transmission of two bits that differ has clocked both out
C1_Witness ==
    /\ pc = "send"
    /\ counter = 0
    /\ Len(sent) = 2
    /\ sent[1] # sent[2]
    /\ Len(clocked) = 2

\* C2: if a PULSE on bit b is followed, before its timer fires, by another action
\* on b, the earlier pulse's clear does not override the later action: when the
\* superseded timer fires, b keeps the value the later action gave it (stated of
\* the runs without the console, where rules and timers alone write the bits).
C2_LaterActionWins ==
    [][(clearBitTimeout /\ Head(timers).superseded /\ ~debugOn)
        => ReadBit(bits', Head(timers).bit) = ReadBit(bits, Head(timers).bit)]_vars

\* C3: a PULSE on bit b makes b true in the step that executes it (the bit is
\* true when that rule's takeAction returns); when no rule acts on b before the
\* pulse's timer fires, b is false once it has fired; and the timer of an
\* executed pulse eventually fires.
C3_Pulse ==
    /\ [](\A i \in 1..Len(last.applied) :
            last.applied[i].rule.action = "PULSE" => last.applied[i].after)
    /\ [][(clearBitTimeout /\ ~Head(timers).superseded)
            => ~ReadBit(bits', Head(timers).bit)]_vars
    /\ (Tracking(timers) ~> ~Tracking(timers))

\* A pulse has been executed: its bit is true and its timer, followed, is pending
C3_Witness ==
    \E i \in 1..Len(timers) :
        /\ timers[i].tracked
        /\ ~timers[i].superseded
        /\ ReadBit(bits, timers[i].bit)
        /\ \E j \in 1..Len(last.applied) : last.applied[j].rule.action = "PULSE"

\* Entry i of the executed rules is the last one on its bit
LastOnBit(a, i) == \A j \in (i + 1)..Len(a) : a[j].rule.bit # a[i].rule.bit

\* What AUTO and AUTOINV are to leave in the bit on an event of this type
AutoValue(action, type) == IF action = "AUTO" THEN type = "OCCUPY" ELSE type # "OCCUPY"

\* C4: a rule with action AUTO that matches a train-tracking event leaves its bit
\* equal to (event.type = OCCUPY), a rule with AUTOINV leaves the negation: the
\* bit has that value when the rule's takeAction returns, and when the event is
\* handled if no rule executed after it for the same event has the same bit.
C4_Auto ==
    /\ [](\A i \in 1..Len(last.applied) :
            LET e == last.applied[i] IN
            (e.routeType = None /\ e.rule.action \in {"AUTO", "AUTOINV"})
                => e.after = AutoValue(e.rule.action, e.type))
    /\ [][MessageStep =>
            \A i \in 1..Len(last'.applied) :
                LET e == last'.applied[i] IN
                (e.routeType = None /\ e.rule.action \in {"AUTO", "AUTOINV"}
                                    /\ LastOnBit(last'.applied, i))
                    => ReadBit(bits', e.rule.bit) = AutoValue(e.rule.action, e.type)]_vars

\* An AUTO rule has cleared its bit on a RELEASE, an AUTOINV rule has set its own
C4_Witness ==
    /\ Len(last.applied) = 2
    /\ last.applied[1].rule.action = "AUTO"
    /\ last.applied[2].rule.action = "AUTOINV"
    /\ last.applied[1].type = "RELEASE"
    /\ ~ReadBit(bits, last.applied[1].rule.bit)
    /\ ReadBit(bits, last.applied[2].rule.bit)

\* C5: a rule with action AUTO that matches a route-set event sets its bit when
\* the routeType is T or S and clears it when the routeType is C.
C5_AutoRouteset ==
    \A i \in 1..Len(last.applied) :
        LET e == last.applied[i] IN
        (Truthy(e.routeType) /\ e.rule.action = "AUTO")
            => e.after = (e.routeType \in {"T", "S"})

\* C6: once configured, the register has exactly bitCount positions, whatever
\* events, timers and transmissions have occurred.
C6_FixedLength == pc # "boot" => Len(bits) = bitCount

\* C7: what a strobe latches is the register as it stood at one instant: nothing
\* changes the bits between the start of a transmission and its strobe, the
\* strobe comes once per transmission, after all bits have been clocked, and
\* the levels it latches are the bits of that instant, bit 0 in stage 0.
C7_Snapshot ==
    /\ [](pc = "send" =>
            /\ bits = sent
            /\ strobes = 0
            /\ counter = 0 =>
                 /\ Len(Latch(clocked)) = Len(sent)
                 /\ \A i \in 1..Len(sent) : Latch(clocked)[i] = Level(sent[i]))
    /\ [][strobes' # strobes =>
            \/ strobes' = 0 /\ pc' = "send"
            \/ strobes' = 1 /\ pc = "send" /\ counter = 0 /\ pc' = "idle"]_vars
    /\ [][(pc = "send" /\ pc' # "send") => strobes' = 1]_vars

\* The interval's transmission of two bits is at its strobe while a pulse timer
\* and a received message's timers wait
C7_Witness ==
    /\ pc = "send"
    /\ caller = "interval"
    /\ counter = 0
    /\ Len(sent) = 2
    /\ \E i \in 1..Len(timers) : timers[i].kind = "clearBit"

\* C8: a payload that is not JSON leaves messageReceiver with the error line
\* high and the timestamp of the last message fresh, no exception leaves
\* messageReceiver, and the program goes on to the next message.
C8_MalformedHandled ==
    [][(MessageStep /\ last'.thrown = "parse")
        => /\ err' = 1
           /\ ~stale'
           /\ last'.outcome = "error"
           /\ pc' = "idle"]_vars

PendingPulses(ts) == SelectSeq(ts, LAMBDA t : t.kind = "clearBit")

Unfiltered(rule) ==
    /\ ~Truthy(rule.type)
    /\ ~Truthy(rule.from)
    /\ ~Truthy(rule.fromSection)
    /\ ~Truthy(rule.to)
    /\ ~Truthy(rule.toSection)

Elements(seq) == {seq[i] : i \in 1..Len(seq)}

\* The rules indexed under the keys a message is directed at
DirectedAt(station, section) ==
    Elements(Lookup(rules, <<station>>)) \cup Elements(Lookup(rules, <<station, section>>))

DirectedTrain(m) == DirectedAt(m.station, m.trackSection)

DirectedRouteset(m) ==
    UNION {DirectedAt(m.routesections[i].stationCode, m.routesections[i].sectionId) :
             i \in 1..Len(m.routesections)}

AppliedRules(l) == {l.applied[i].rule : i \in 1..Len(l.applied)}

\* C10, as stated: a rule with no filter is applied to every event directed at
\* its key, train-tracking events and the sections of route-set events alike.
C10_UnfilteredAlways ==
    [][(MessageStep /\ last'.outcome = "ok") =>
        \A m \in Payloads(variant), track \in BOOLEAN :
            (m.parse = "object" /\ messageReceiver(m, track))
                => \A rule \in (IF m.channel = "routesets" THEN DirectedRouteset(m)
                                                           ELSE DirectedTrain(m)) :
                     Unfiltered(rule) => rule \in AppliedRules(last')]_vars

\* C10, amended: a rule with no filter is applied to every train-tracking event
\* directed at its key, and to no route-set event.
C10_UnfilteredTrain ==
    /\ [][MessageStep =>
            \A m \in Payloads(variant), track \in BOOLEAN :
                (m.parse = "object" /\ m.channel = "train-tracking")
                    => \A rule \in DirectedTrain(m) :
                         Unfiltered(rule) =>
                            \/ rule \in AppliedRules(last')
                            \/ ~messageReceiver(m, track)]_vars
    /\ [](\A i \in 1..Len(last.applied) :
            Truthy(last.applied[i].routeType) => ~Unfiltered(last.applied[i].rule))

\* A rule with no filter, indexed under station|trackSection, has been applied
\* to a train-tracking event
C10_Witness ==
    \E i \in 1..Len(last.applied) :
        /\ Unfiltered(last.applied[i].rule)
        /\ Truthy(last.applied[i].rule.trackSection)
        /\ last.applied[i].routeType = None
        /\ last.outcome = "ok"

\* The marker that goes with a routeType
MarkerOf(routeType) ==
    CASE routeType = "T" -> "ROUTESET"
      [] routeType = "S" -> "ROUTESET_S"
      [] routeType = "C" -> "ROUTESET_C"
      [] OTHER -> None

\* C11: a rule whose type is one of the ROUTESET markers is never executed for a
\* train-tracking event, and a rule executed for a route-set event has the marker
\* of the event's routeType as its type (ROUTESET for T, ROUTESET_S for S,
\* ROUTESET_C for C).
C11_RoutesetMarkers ==
    \A i \in 1..Len(last.applied) :
        LET e == last.applied[i] IN
        /\ ~Truthy(e.routeType) => e.rule.type \notin RoutesetMarkers
        /\ Truthy(e.routeType) => e.rule.type = MarkerOf(e.routeType)

\* A route-set event of type S has executed a ROUTESET_S rule and passed over a
\* ROUTESET rule of the same station
C11_Witness ==
    /\ last.outcome = "ok"
    /\ \E i \in 1..Len(last.applied) :
         /\ last.applied[i].routeType = "S"
         /\ last.applied[i].rule.type = "ROUTESET_S"
    /\ \E j \in 1..Len(last.rejected) :
         /\ last.rejected[j].rule.type = "ROUTESET"
         /\ ~Truthy(last.rejected[j].rule.from)
         /\ ~Truthy(last.rejected[j].rule.toSection)

\* C12: a rule with fromSection = S is executed for a train-tracking event only
\* if the event's previousTrackSection is S, and a rule with toSection = S only
\* if the event's nextTrackSection is S, whatever the rule's from and to are.
C12_SectionFilters ==
    [][MessageStep =>
        \A m \in Payloads(variant), track \in BOOLEAN :
            (m.parse = "object" /\ m.channel = "train-tracking"
                                /\ messageReceiver(m, track))
                => \A i \in 1..Len(last'.applied) :
                     LET rule == last'.applied[i].rule IN
                     /\ Truthy(rule.fromSection)
                            => m.previousTrackSection = rule.fromSection
                     /\ Truthy(rule.toSection)
                            => m.nextTrackSection = rule.toSection]_vars

\* C13: in a route-set event no rule with from or fromSection is executed at
\* section index 0, and no rule with to or toSection at the last section index,
\* whatever the length of the route.
C13_RouteEnds ==
    \A i \in 1..Len(last.applied) :
        LET e == last.applied[i] IN
        Truthy(e.routeType) =>
            /\ e.index = 0 => ~Truthy(e.rule.from) /\ ~Truthy(e.rule.fromSection)
            /\ e.index = e.lastIndex => ~Truthy(e.rule.to) /\ ~Truthy(e.rule.toSection)

\* A route of one section, of type T: at index 0, which is also the last, a
\* ROUTESET rule with from and one with toSection were passed over while an
\* unfiltered ROUTESET rule of the same section was executed
C13_Witness ==
    /\ last.outcome = "ok"
    /\ Len(last.applied) = 1
    /\ last.applied[1].routeType = "T"
    /\ last.applied[1].index = 0
    /\ last.applied[1].lastIndex = 0
    /\ \E j \in 1..Len(last.rejected) :
         /\ last.rejected[j].index = 0
         /\ last.rejected[j].rule.type = "ROUTESET"
         /\ Truthy(last.rejected[j].rule.from)
    /\ \E j \in 1..Len(last.rejected) :
         /\ last.rejected[j].index = 0
         /\ last.rejected[j].rule.type = "ROUTESET"
         /\ Truthy(last.rejected[j].rule.toSection)

AckPulses(ts) == SelectSeq(ts, LAMBDA t : t.kind = "ackOff")

\* C14: a well-formed message for which no rule passes its predicate changes no
\* bit, arms no pulse timer and does not pulse the acknowledge line; the
\* acknowledge line is pulsed once for every rule executed and for nothing else.
C14_NoMatchNoEffect ==
    [][(MessageStep /\ last'.outcome = "ok")
        => /\ Len(AckPulses(timers')) = Len(AckPulses(timers)) + Len(last'.applied)
           /\ last'.applied = <<>>
                => /\ bits' = bits
                   /\ PendingPulses(timers') = PendingPulses(timers)
                   /\ ack' = ack]_vars

\* A message has found rules under its keys and none of them passed: the
\* acknowledge line is low
C14_Witness ==
    /\ last.outcome = "ok"
    /\ last.applied = <<>>
    /\ last.rejected # <<>>
    /\ ack = 0
    /\ recv = 1

\* The actions the running program knows
Recognized(v, action) ==
    \/ action \in {"AUTO", "AUTOINV", "SET", "CLEAR", "TOGGLE", "PULSE"}
    \/ v = "classic" /\ action \in {"PULSEOCCUPY", "PULSERELEASE"}

\* C15: a matched rule whose action is not recognized changes no bit and arms no
\* pulse timer, and the acknowledge line is still pulsed for it: the rule's bit
\* is as before when its takeAction returns, and a message all of whose executed
\* rules have unrecognized actions leaves the register and the pending pulse
\* timers as they were and the acknowledge line high.
C15_UnknownAction ==
    /\ [](\A i \in 1..Len(last.applied) :
            LET e == last.applied[i] IN
            ~Recognized(variant, e.rule.action) => e.after = e.before /\ ~e.armed)
    /\ [][(/\ MessageStep
           /\ last'.outcome = "ok"
           /\ last'.applied # <<>>
           /\ \A i \in 1..Len(last'.applied) :
                ~Recognized(variant, last'.applied[i].rule.action))
            => /\ bits' = bits
               /\ PendingPulses(timers') = PendingPulses(timers)
               /\ ack' = 1
               /\ Len(AckPulses(timers')) = Len(AckPulses(timers)) + Len(last'.applied)]_vars

\* A rule with the action FLASH has been executed: the acknowledge line is high
C15_Witness ==
    /\ last.outcome = "ok"
    /\ Len(last.applied) = 1
    /\ last.applied[1].rule.action = "FLASH"
    /\ ack = 1
    /\ AckPulses(timers) # <<>>

\* A rule of the configuration that lacks action or bit
Lacking(rule) == rule.action = None \/ rule.bit = NoBit

\* C16: a configured rule that lacks action or bit is under no key of the index,
\* every other rule that has a station is under its key (a rule with bit 0
\* among them), and no rule that lacks action or bit is ever executed.
C16_RejectedRules ==
    /\ [][pc = "boot" =>
            \A config \in Configs :
                initialize(config) =>
                    \A i \in 1..Len(config.rules) :
                        LET rule == config.rules[i] IN
                        /\ Lacking(rule)
                             => \A key \in DOMAIN rules' : rule \notin Elements(rules'[key])
                        /\ (~Lacking(rule) /\ Truthy(rule.station))
                             => rule \in Elements(Lookup(rules',
                                            KeyOf(rule.station, rule.trackSection)))]_vars
    /\ [](\A key \in DOMAIN rules : \A rule \in Elements(rules[key]) : ~Lacking(rule))
    /\ [](\A i \in 1..Len(last.applied) : ~Lacking(last.applied[i].rule))

\* The configuration whose two rules at station B lack action and bit is loaded:
\* B is no key, the rule with bit 0 at B|1 is indexed, and an event at B, section
\* 1, has executed that rule and no other
C16_Witness ==
    /\ <<"B">> \notin DOMAIN rules
    /\ <<"B", "1">> \in DOMAIN rules
    /\ rules[<<"B", "1">>][1].bit = 0
    /\ last.outcome = "ok"
    /\ Len(last.applied) = 1
    /\ last.applied[1].rule.station = "B"
    /\ last.applied[1].rule.bit = 0

\* C17: the error line is high from startup until the first message is received,
\* and it is low right after every message that is handled without a failure,
\* whatever raised it before.
C17_ErrorIndicator ==
    /\ [](last.outcome = "none" => err = 1)
    /\ [][(MessageStep /\ last'.outcome = "ok") => err' = 0]_vars

\* A message has been handled and the error line is low; the socket had been
\* down before (it connects with the error line high)
C17_Witness ==
    /\ last.outcome = "ok"
    /\ err = 0
    /\ socket = "connected"
    /\ recv = 1

\* The step of the watchdog's callback when it finds the last message too old:
\* it alone takes a fresh timestamp without a message being received
WatchdogFires == mainOn /\ stale /\ ~stale' /\ recv' = recv /\ timers' = timers

\* C18: when the last message was received more than a minute ago, the watchdog
\* raises the error line and the socket is reconnected.
C18_WatchdogReconnects ==
    [][WatchdogFires => err' = 1 /\ socket' = "connecting"]_vars

\* C19: a rule with action PULSEOCCUPY executed for a train-tracking event pulses
\* its bit (the bit is set and the clearing timer armed) if and only if the event
\* type is OCCUPY, a rule with PULSERELEASE if and only if it is RELEASE;
\* otherwise the bit is left as it was.
C19_ConditionalPulse ==
    \A i \in 1..Len(last.applied) :
        LET e == last.applied[i]
            on == IF e.rule.action = "PULSEOCCUPY" THEN "OCCUPY" ELSE "RELEASE"
        IN (e.routeType = None /\ e.rule.action \in {"PULSEOCCUPY", "PULSERELEASE"})
            => IF e.type = on THEN e.after /\ e.armed
                              ELSE e.after = e.before /\ ~e.armed

\* The rules found under the keys of a train-tracking event, in the order in
\* which the handler goes through them
Candidates(m) ==
    Lookup(rules, <<m.station>>) \o Lookup(rules, <<m.station, m.trackSection>>)

\* The orders in which n rules can be gone through
Orders(n) == {p \in [1..n -> 1..n] : \A i, j \in 1..n : p[i] = p[j] => i = j}

InOrder(list, p) == [i \in 1..Len(list) |-> list[p[i]]]

\* The event's rules gone through in the order of `list'
Run(m, list) ==
    IF variant = "routeset" THEN forEachTrainRule(Working, m, list)
                            ELSE forEachClassicRule(Working, m, list)

PulseCount(ts, bit) == Len(SelectSeq(ts, LAMBDA t : IsClearTimer(t, bit)))

\* The same register and the same pending pulse timers
SameOutcome(a, b) ==
    /\ a.bits = b.bits
    /\ \A bit \in 0..Len(a.bits) : PulseCount(a.timers, bit) = PulseCount(b.timers, bit)

TrainEvents == {m \in TrainPayloads : m.parse = "object"}

\* C20, as stated: for a single event, the register and the pending pulse timers
\* that result from executing its matching rules are the same for every order in
\* which the rules are executed.
C20_OrderIndependent ==
    (CallbackReady /\ socket = "connected") =>
        \A m \in TrainEvents :
            LET result == Received(m)
                list == Candidates(m)
            IN \A p \in Orders(Len(list)) :
                 SameOutcome(result, Run(m, InOrder(list, p)))

DistinctBits(a) == \A i, j \in 1..Len(a) : i # j => a[i].rule.bit # a[j].rule.bit

\* C20, amended: for a single event no two of whose matching rules act on the
\* same bit, the register and the pending pulse timers that result are the same
\* for every order in which the rules are executed.
C20_DistinctBits ==
    (CallbackReady /\ socket = "connected") =>
        \A m \in TrainEvents :
            LET result == Received(m)
                list == Candidates(m)
            IN DistinctBits(result.applied) =>
                 \A p \in Orders(Len(list)) :
                    SameOutcome(result, Run(m, InOrder(list, p)))

\* An event has executed two rules on different bits, the first of them a pulse
\* whose timer is pending
C20_Witness ==
    /\ last.outcome = "ok"
    /\ Len(last.applied) = 2
    /\ last.applied[1].rule.bit # last.applied[2].rule.bit
    /\ last.applied[1].armed
    /\ PulseCount(timers, last.applied[1].rule.bit) = 1

\* C21: initialization with bit count N and any initialPattern leaves a register
\* of exactly N positions in which bit i is true exactly when the pattern has a
\* character at i and it is '1'; positions beyond a short or missing pattern
\* are false.
C21_InitialRegister ==
    [][pc = "boot" =>
         \A config \in Configs :
             initialize(config) =>
                 /\ Len(bits') = config.bits
                 /\ bitCount' = config.bits
                 /\ \A i \in 0..(config.bits - 1) :
                        bits'[i + 1] = (/\ i < Len(config.initialPattern)
                                        /\ config.initialPattern[i + 1] = "1")]_vars

\* The register of two bits has just been initialized from the pattern "1",
\* which is too short: bit 0 is set, bit 1 is clear, and sendPattern is entered
C21_Witness ==
    /\ pc = "send"
    /\ caller = "initialize"
    /\ strobes = 0
    /\ bitCount = 2
    /\ bits = <<TRUE, FALSE>>

\* C24: started with --debug as its first argument, the program never starts the
\* network client (main is not called), so after initialization the register
\* changes only through a console line that names a bit in range.
C24_DebugOffline ==
    /\ []((argv2 = "--debug" /\ pc # "boot") => (~mainOn /\ socket = "none"))
    /\ [][(argv2 = "--debug" /\ pc # "boot" /\ bits' # bits) =>
             \E bitNumber \in 0..(Len(bits) - 1) :
                 /\ consoleLine(bitNumber)
                 /\ bits' = toggleBit(bits, bitNumber)]_vars

\* A route-set event that is handled to its end: an object without a null section
RouteEvents ==
    { m \in RoutesetPayloads :
        /\ m.parse = "object"
        /\ \A k \in 1..Len(m.routesections) : ~m.routesections[k].isNull }

\* The rules filed under the station of a section and under its station|sectionId
RulesAt(section) ==
    Elements(Lookup(rules, <<section.stationCode>>))
        \cup Elements(Lookup(rules, <<section.stationCode, section.sectionId>>))

\* What the rule asks of the route rs at position i (0-based): the marker of the
\* route type, from/fromSection on section i - 1, to/toSection on section i + 1
Neighbours(m, i, rule) ==
    LET rs == m.routesections IN
    /\ rule.type = MarkerOf(m.routeType)
    /\ Truthy(rule.from) => (i > 0 /\ rs[i].stationCode = rule.from)
    /\ Truthy(rule.fromSection) => (i > 0 /\ rs[i].sectionId = rule.fromSection)
    /\ Truthy(rule.to) => (i + 2 <= Len(rs) /\ rs[i + 2].stationCode = rule.to)
    /\ Truthy(rule.toSection) => (i + 2 <= Len(rs) /\ rs[i + 2].sectionId = rule.toSection)

FiredAt(result, rule, i) ==
    \E j \in 1..Len(result.applied) :
        result.applied[j].rule = rule /\ result.applied[j].index = i

\* C22: for a route-set event with sections s_0..s_{n-1}, a rule filed under
\* section i is executed at position i exactly when its marker suits the route
\* type, its from/fromSection filter equals s_{i-1} and its to/toSection filter
\* equals s_{i+1}; no other section of the route is compared, and a rule is
\* executed at no position but those of its own station.
C22_Neighbours ==
    (variant = "routeset" /\ CallbackReady) =>
        \A m \in RouteEvents :
            LET result == Received(m)
                rs == m.routesections
            IN /\ \A i \in 0..(Len(rs) - 1) :
                      \A rule \in RulesAt(rs[i + 1]) :
                          FiredAt(result, rule, i) <=> Neighbours(m, i, rule)
               /\ \A j \in 1..Len(result.applied) :
                      result.applied[j].rule \in RulesAt(rs[result.applied[j].index + 1])

\* A route of four sections B, B, A, A has been handled: the rule at B with
\* to = A was refused at position 0, whose next section is B, and executed at
\* position 1; the rule at A with from = B was executed at position 2 and
\* refused at position 3
C22_Witness ==
    /\ last.outcome = "ok"
    /\ \E j, k \in 1..Len(last.applied) :
          /\ last.applied[j].rule.to = "A"
          /\ last.applied[j].index = 1
          /\ last.applied[j].lastIndex = 3
          /\ last.applied[k].rule.from = "B"
          /\ last.applied[k].index = 2
          /\ \E r, q \in 1..Len(last.rejected) :
                /\ last.rejected[r].rule = last.applied[j].rule
                /\ last.rejected[r].index = 0
                /\ last.rejected[q].rule = last.applied[k].rule
                /\ last.rejected[q].index = 3

\* A pulse on `bit' was executed after the last transmission began: its timer is
\* pending behind the transmitter's, so no transmission has latched it yet
AwaitsLatch(ts, bit) ==
    \E i, j \in 1..Len(ts) :
        /\ i < j
        /\ ts[i].kind = "sendPattern"
        /\ IsClearTimer(ts[j], bit)

\* C23: every executed PULSE on bit b is followed by a transmission that latches
\* b = 1 before b is cleared again, whatever the order of events, pulse timers
\* (those of earlier pulses on b included) and transmitter ticks: no pulse timer
\* turns b off while a pulse on b still waits for its first transmission.
C23_PulseLatched ==
    [][clearBitTimeout =>
         ~(/\ ReadBit(bits, Head(timers).bit)
           /\ ~ReadBit(bits', Head(timers).bit)
           /\ AwaitsLatch(timers, Head(timers).bit))]_vars

====
